---------------------------- MODULE Spec2Model ----------------------------
(***************************************************************************)
(* AdamW optimizer of src/optimizer.py: the constructor's validation, the  *)
(* parameter groups the torch base class builds from the constructor's     *)
(* arguments, and step().                                                  *)
(*                                                                         *)
(* Numbers.  A tensor is a 0-dim (scalar) tensor.  Its value is an         *)
(* extended rational <<n, d>>: d > 0 is the number n/d in lowest terms,    *)
(* <<1,0>> is +inf, <<-1,0>> is -inf and <<0,0>> is NaN, so that a division *)
(* by zero (sqrt(v_hat) + eps = 0) has the outcome it has in the program.  *)
(* +, *, / are exact; rounding of the float operations is not modelled.    *)
(* sqrt is exact where the root is rational and otherwise rounded up to    *)
(* the next multiple of 1/2.                                               *)
(***************************************************************************)
EXTENDS Integers, Sequences, FiniteSets, TLC

VARIABLES
    constructed,   \* "no" | "yes" | "ValueError": outcome of AdamW(...)
    ctor_args,     \* the arguments AdamW(...) was called with
    param_groups,  \* self.param_groups
    state,         \* self.state: handle -> [step, m, v], entries created lazily
    data,          \* p.data of every parameter handle
    grad,          \* p.grad of every parameter handle
    calls,         \* number of step() calls made so far
    outcome,       \* of the last step(): "none" | "returned" | "RuntimeError"
    loss,          \* what the last step() returned ("None" when nothing)
    closure_arg,   \* the closure the last step() was given ("None" or its id)
    invoked,       \* how often the last step() invoked its closure
    grad_calls,    \* per handle: number of step() calls that met a gradient on it
    raised_calls   \* number of step() calls that raised RuntimeError

vars == <<constructed, ctor_args, param_groups, state, data, grad, calls,
          outcome, loss, closure_arg, invoked, grad_calls, raised_calls>>

\* Largest number of step() calls explored, and largest step count a
\* parameter reaches.
MaxCalls == 2
MaxStep == 3

-----------------------------------------------------------------------------
(* Extended rational arithmetic *)

Abs(i) == IF i < 0 THEN -i ELSE i

Sign(i) == IF i < 0 THEN -1 ELSE IF i > 0 THEN 1 ELSE 0

RECURSIVE GCD(_, _)
GCD(a, b) == IF b = 0 THEN a ELSE GCD(b, a % b)

Norm(n, d) ==
    IF d = 0 THEN <<Sign(n), 0>>
    ELSE LET g == GCD(Abs(n), Abs(d))
         IN  <<(Sign(d) * n) \div g, Abs(d) \div g>>

Zero == <<0, 1>>
One == <<1, 1>>
Half == <<1, 2>>
NaN == <<0, 0>>
Inf == <<1, 0>>

Neg(x) == <<-x[1], x[2]>>

\* cross-reduced first, so that only the result has to fit the integers
Mul(x, y) ==
    LET a == Norm(x[1], y[2])
        b == Norm(y[1], x[2])
    IN  Norm(a[1] * b[1], a[2] * b[2])

Add(x, y) ==
    IF x[2] = 0 /\ y[2] = 0
    THEN IF x = y THEN x ELSE NaN
    ELSE LET g == GCD(x[2], y[2])
             dx == IF g = 0 THEN 0 ELSE x[2] \div g
             dy == IF g = 0 THEN 0 ELSE y[2] \div g
         IN  Norm(x[1] * dy + y[1] * dx, dx * y[2])

Sub(x, y) == Add(x, Neg(y))

\* x / y; x / 0 is +-inf (the divisor of the program is never -0), 0 / 0 is NaN
Div(x, y) == Mul(x, IF y[1] < 0 THEN <<-y[2], -y[1]>> ELSE <<y[2], y[1]>>)

Less(x, y) == x[1] * y[2] < y[1] * x[2]

Leq(x, y) == x[1] * y[2] <= y[1] * x[2]

RECURSIVE Pow(_, _)
Pow(x, t) == IF t = 0 THEN One ELSE Mul(x, Pow(x, t - 1))

RECURSIVE ISqrtIn(_, _, _)
ISqrtIn(lo, hi, n) ==
    IF lo = hi THEN lo
    ELSE LET mid == (lo + hi + 1) \div 2
         IN  IF mid * mid <= n THEN ISqrtIn(mid, hi, n) ELSE ISqrtIn(lo, mid - 1, n)

ISqrt(n) == ISqrtIn(0, IF n < 46340 THEN n ELSE 46340, n)

Sqrt(x) ==
    IF x[2] = 0 THEN (IF x = Inf THEN Inf ELSE NaN)
    ELSE IF x[1] < 0 THEN NaN
    ELSE LET rn == ISqrt(x[1]) rd == ISqrt(x[2])
         IN  IF rn * rn = x[1] /\ rd * rd = x[2]
             THEN <<rn, rd>>
             ELSE LET f == ISqrt((4 * x[1]) \div x[2])
                  IN  Norm(IF f * f * x[2] = 4 * x[1] THEN f ELSE f + 1, 2)

-----------------------------------------------------------------------------
(* The parameters, owned by the training code *)

Handles == {"p1", "p2", "p3"}

\* p.grad: None, or a tensor that is dense or sparse
NoGrad == [present |-> FALSE, is_sparse |-> FALSE, data |-> Zero]
DenseGrad(g) == [present |-> TRUE, is_sparse |-> FALSE, data |-> g]
SparseGrad(g) == [present |-> TRUE, is_sparse |-> TRUE, data |-> g]

GradVals == {<<-2, 1>>, Zero, One}

GradOpts == {NoGrad, SparseGrad(One)} \cup {DenseGrad(g) : g \in GradVals}

Grads(g1, g2, g3) ==
    [h \in Handles |-> IF h = "p1" THEN g1 ELSE IF h = "p2" THEN g2 ELSE g3]

NoGrads == Grads(NoGrad, NoGrad, NoGrad)

\* What a backward pass or zero_grad of the training code leaves in p.grad
GradAssignments ==
    { NoGrads,
      Grads(DenseGrad(One), DenseGrad(<<-2, 1>>), DenseGrad(One)),
      Grads(DenseGrad(<<-2, 1>>), NoGrad, DenseGrad(One)),
      Grads(NoGrad, DenseGrad(One), NoGrad),
      Grads(DenseGrad(Zero), DenseGrad(Zero), DenseGrad(Zero)),
      Grads(DenseGrad(One), SparseGrad(One), DenseGrad(<<-2, 1>>)),
      Grads(SparseGrad(One), DenseGrad(One), NoGrad) }

InitData ==
    [h \in Handles |-> IF h = "p1" THEN One ELSE IF h = "p2" THEN <<-1, 2>> ELSE <<2, 1>>]

-----------------------------------------------------------------------------
(* AdamW.__init__ *)

\* One entry of the params argument: a group's parameters and, when lr_set,
\* the group's own "lr" key.  A plain list of parameters is one such entry
\* without a key of its own.
GroupArg(ps, lr_set, lr) == [params |-> ps, lr_set |-> lr_set, lr |-> lr]

NoArgs ==
    [params |-> <<>>, lr |-> Zero, betas |-> <<Zero, Zero>>, eps |-> Zero,
     weight_decay |-> Zero, correct_bias |-> FALSE]

\* lines 17-24 raise ValueError
ValidMutBeta(lr, betas, eps) ==
    /\ ~Less(lr, Zero)
    /\ Leq(Zero, betas[1]) /\ Leq(betas[1], One)
    /\ Leq(Zero, betas[2]) /\ Leq(betas[2], One)
    /\ Leq(Zero, eps)

Valid(lr, betas, eps) ==
    /\ ~Less(lr, Zero)
    /\ Leq(Zero, betas[1]) /\ Less(betas[1], One)
    /\ Leq(Zero, betas[2]) /\ Less(betas[2], One)
    /\ Leq(Zero, eps)

\* line 25
Defaults(a) ==
    [lr |-> a.lr, betas |-> a.betas, eps |-> a.eps,
     weight_decay |-> a.weight_decay, correct_bias |-> a.correct_bias]

\* line 26, Optimizer.add_param_group: a key the group does not set itself is
\* taken from the defaults (setdefault); a key it sets is kept as given.
AddParamGroup(ga, defaults) ==
    [params |-> ga.params,
     lr |-> IF ga.lr_set THEN ga.lr ELSE defaults.lr,
     betas |-> defaults.betas,
     eps |-> defaults.eps,
     weight_decay |-> defaults.weight_decay,
     correct_bias |-> defaults.correct_bias]

MakeGroups(a) ==
    [i \in 1..Len(a.params) |-> AddParamGroup(a.params[i], Defaults(a))]

NoState == [h \in {} |-> 0]

Construct(a) ==
    /\ constructed = "no"
    /\ ctor_args' = a
    /\ IF Valid(a.lr, a.betas, a.eps)
       THEN /\ constructed' = "yes"
            /\ param_groups' = MakeGroups(a)
       ELSE /\ constructed' = "ValueError"
            /\ param_groups' = param_groups
    /\ UNCHANGED <<state, data, grad, calls, outcome, loss, closure_arg, invoked,
                   grad_calls, raised_calls>>

-----------------------------------------------------------------------------
(* AdamW.step *)

\* as GetState, with the moments of an existing entry zeroed
GetStateMutRezero(st, p) ==
    IF p \in DOMAIN st THEN [st[p] EXCEPT !.m = Zero, !.v = Zero]
    ELSE [step |-> 0, m |-> Zero, v |-> Zero]

\* as GetState, initialised at every lookup
GetStateMutReset(st, p) == [step |-> 0, m |-> Zero, v |-> Zero]

\* lines 50-55: self.state[p], initialised when empty
GetState(st, p) ==
    IF p \in DOMAIN st THEN st[p] ELSE [step |-> 0, m |-> Zero, v |-> Zero]

PutState(st, p, e) ==
    [h \in DOMAIN st \cup {p} |-> IF h = p THEN e ELSE st[h]]

\* lines 64-65
Moments(s, g, beta1, beta2) ==
    [m |-> Add(Mul(s.m, beta1), Mul(Sub(One, beta1), g)),
     v |-> Add(Mul(s.v, beta2), Mul(Sub(One, beta2), Mul(g, g)))]

\* as BiasCorrect, without the test of correct_bias
BiasCorrectMutAlways(m, v, beta1, beta2, t, correct_bias) ==
    [m_hat |-> Div(m, Sub(One, Pow(beta1, t))),
     v_hat |-> Div(v, Sub(One, Pow(beta2, t)))]

\* lines 68-73
BiasCorrect(m, v, beta1, beta2, t, correct_bias) ==
    IF correct_bias
    THEN [m_hat |-> Div(m, Sub(One, Pow(beta1, t))),
          v_hat |-> Div(v, Sub(One, Pow(beta2, t)))]
    ELSE [m_hat |-> m, v_hat |-> v]

\* line 77
Update(lr, m_hat, v_hat, eps) == Div(Mul(lr, m_hat), Add(Sqrt(v_hat), eps))

\* as ApplyUpdate, with the decay taken from the value before the step
ApplyUpdateMutPre(pdata, update, lr, weight_decay) ==
    LET q == Add(pdata, Mul(<<-1, 1>>, update))
    IN  IF weight_decay # Zero
        THEN Add(q, Mul(Mul(Neg(lr), weight_decay), pdata))
        ELSE q

\* lines 80-82
ApplyUpdate(pdata, update, lr, weight_decay) ==
    LET q == Add(pdata, Mul(<<-1, 1>>, update))
    IN  IF weight_decay # Zero
        THEN Add(q, Mul(Mul(Neg(lr), weight_decay), q))
        ELSE q

\* lines 57-82 for one parameter with a dense gradient g and state entry s
AdamUpdate(pdata, s, g, group) ==
    LET t == s.step + 1
        mv == Moments(s, g, group.betas[1], group.betas[2])
        hat == BiasCorrect(mv.m, mv.v, group.betas[1], group.betas[2], t,
                           group.correct_bias)
        update == Update(group.lr, hat.m_hat, hat.v_hat, group.eps)
    IN  [data |-> ApplyUpdate(pdata, update, group.lr, group.weight_decay),
         entry |-> [step |-> t, m |-> mv.m, v |-> mv.v]]

\* as ParamStep, with an entry created for a parameter that has no gradient
ParamStepMutSkip(group, p, env) ==
    IF ~env.grad[p].present
    THEN [env EXCEPT !.state = PutState(@, p, GetState(@, p))]
    ELSE IF env.grad[p].is_sparse THEN [env EXCEPT !.raised = TRUE]
    ELSE LET r == AdamUpdate(env.data[p], GetState(env.state, p),
                             env.grad[p].data, group)
         IN  [env EXCEPT !.data[p] = r.data,
                         !.state = PutState(@, p, r.entry)]

\* as ParamStep, with the state looked up before the sparse check
ParamStepMutSparse(group, p, env) ==
    IF ~env.grad[p].present THEN env
    ELSE IF env.grad[p].is_sparse
    THEN [env EXCEPT !.raised = TRUE,
                     !.state = PutState(@, p, GetState(@, p))]
    ELSE LET r == AdamUpdate(env.data[p], GetState(env.state, p),
                             env.grad[p].data, group)
         IN  [env EXCEPT !.data[p] = r.data,
                         !.state = PutState(@, p, r.entry)]

\* as ParamStep, with the state kept under the group's first parameter
ParamStepMutShared(group, p, env) ==
    IF ~env.grad[p].present THEN env
    ELSE IF env.grad[p].is_sparse THEN [env EXCEPT !.raised = TRUE]
    ELSE LET r == AdamUpdate(env.data[p], GetState(env.state, group.params[1]),
                             env.grad[p].data, group)
         IN  [env EXCEPT !.data[p] = r.data,
                         !.state = PutState(@, group.params[1], r.entry)]

\* lines 42-82: the loop body for parameter p of a group.  env holds what
\* step() reads and writes: data, grad, state, raised (RuntimeError thrown).
ParamStep(group, p, env) ==
    IF ~env.grad[p].present THEN env
    ELSE IF env.grad[p].is_sparse THEN [env EXCEPT !.raised = TRUE]
    ELSE LET r == AdamUpdate(env.data[p], GetState(env.state, p),
                             env.grad[p].data, group)
         IN  [env EXCEPT !.data[p] = r.data,
                         !.state = PutState(@, p, r.entry)]

\* line 41: for p in group["params"], from position i on
RECURSIVE ParamLoop(_, _, _)
ParamLoop(group, i, env) ==
    IF env.raised \/ i > Len(group.params) THEN env
    ELSE ParamLoop(group, i + 1, ParamStep(group, group.params[i], env))

\* line 34: for group in self.param_groups, from position i on
RECURSIVE GroupLoop(_, _, _)
GroupLoop(groups, i, env) ==
    IF env.raised \/ i > Len(groups) THEN env
    ELSE GroupLoop(groups, i + 1, ParamLoop(groups[i], 1, env))

\* A closure: what it leaves in p.grad of every parameter, and what it returns
NoClosure == [given |-> FALSE, sets |-> NoGrads, ret |-> "None"]

\* a closure that runs zero_grad only returns "lossB", one that runs a
\* backward pass returns "lossA"
ClosureGrads ==
    { NoGrads,
      Grads(DenseGrad(One), DenseGrad(<<-2, 1>>), DenseGrad(One)),
      Grads(DenseGrad(One), SparseGrad(One), DenseGrad(<<-2, 1>>)) }

Closures ==
    { [given |-> TRUE, sets |-> ga,
       ret |-> IF ga = NoGrads THEN "lossB" ELSE "lossA"] :
      ga \in ClosureGrads }

\* lines 29-31
CallClosure(closure, env) ==
    IF closure.given
    THEN [env EXCEPT !.grad = closure.sets, !.loss = closure.ret,
                     !.invoked = @ + 1]
    ELSE env

\* as StepBody, with the closure invoked after the loop
StepBodyMutLate(closure, groups, env) ==
    CallClosure(closure, GroupLoop(groups, 1, env))

\* lines 28-84
StepBody(closure, groups, env) ==
    GroupLoop(groups, 1, CallClosure(closure, env))

step(closure) ==
    /\ constructed = "yes"
    /\ calls < MaxCalls
    /\ \E r \in {StepBody(closure, param_groups,
                            [data |-> data, grad |-> grad, state |-> state,
                             loss |-> "None", invoked |-> 0, raised |-> FALSE])} :
           /\ \A h \in DOMAIN r.state : r.state[h].step <= MaxStep
           /\ data' = r.data
           /\ grad' = r.grad
           /\ state' = r.state
           /\ invoked' = r.invoked
           /\ outcome' = IF r.raised THEN "RuntimeError" ELSE "returned"
           /\ loss' = IF r.raised THEN "None" ELSE r.loss
           /\ grad_calls' = [h \in Handles |->
                  grad_calls[h] + IF r.grad[h].present THEN 1 ELSE 0]
           /\ raised_calls' = raised_calls + IF r.raised THEN 1 ELSE 0
    /\ closure_arg' = closure.ret
    /\ calls' = calls + 1
    /\ UNCHANGED <<constructed, ctor_args, param_groups>>

\* The training code's backward pass or zero_grad between two step() calls
Backward(ga) ==
    /\ constructed = "yes"
    /\ calls < MaxCalls
    /\ grad' = ga
    /\ UNCHANGED <<constructed, ctor_args, param_groups, state, data, calls,
                   outcome, loss, closure_arg, invoked, grad_calls, raised_calls>>

-----------------------------------------------------------------------------
(* Specifications *)

Init ==
    /\ constructed = "no"
    /\ ctor_args = NoArgs
    /\ param_groups = <<>>
    /\ state = NoState
    /\ data = InitData
    /\ grad = NoGrads
    /\ calls = 0
    /\ outcome = "none"
    /\ loss = "None"
    /\ closure_arg = "None"
    /\ invoked = 0
    /\ grad_calls = [h \in Handles |-> 0]
    /\ raised_calls = 0

\* The params argument.  The base class accepts a handle that is listed twice
\* within one group (it warns) and a group that sets its own "lr"; it refuses
\* an empty list and a handle listed in two groups, which are left out here.
ParamsArgs ==
    { <<GroupArg(<<"p1", "p2", "p3">>, FALSE, Zero)>>,
      <<GroupArg(<<"p1", "p2", "p1">>, FALSE, Zero), GroupArg(<<"p3">>, TRUE, One)>>,
      <<GroupArg(<<"p3">>, TRUE, One), GroupArg(<<"p2", "p1">>, FALSE, Zero)>>,
      <<GroupArg(<<"p1">>, FALSE, Zero), GroupArg(<<"p2", "p3">>, TRUE, <<-1, 1>>)>> }

CtorArgs ==
    [params : ParamsArgs,
     lr : {<<-1, 1>>, Half},
     betas : {<<Zero, Half>>, <<Half, Half>>, <<Half, Zero>>, <<One, Half>>},
     eps : {Zero, One},
     weight_decay : {Zero, Half},
     correct_bias : BOOLEAN]

Next ==
    \/ \E a \in CtorArgs : Construct(a)
    \/ \E ga \in GradAssignments : Backward(ga)
    \/ step(NoClosure)
    \/ \E c \in Closures : step(c)

Spec == Init /\ [][Next]_vars

\* The constructor alone, over a wider set of hyperparameters
WideCtorArgs ==
    [params : ParamsArgs,
     lr : {<<-1, 10>>, Zero, <<1, 1000>>, Half},
     betas : {<<-1, 10>>, Zero, <<9, 10>>, One, <<3, 2>>}
             \X {<<-1, 10>>, Zero, <<999, 1000>>, One},
     eps : {<<-1, 100000000>>, Zero, <<1, 1000000>>},
     weight_decay : {<<-1, 100>>, Zero, <<1, 100>>},
     correct_bias : BOOLEAN]

NextCtor == \E a \in WideCtorArgs : Construct(a)

SpecCtor == Init /\ [][NextCtor]_vars

-----------------------------------------------------------------------------
(* Vocabulary of the properties *)

IsDense(g) == g.present /\ ~g.is_sparse

IsSparse(g) == g.present /\ g.is_sparse

StepOf(st, p) == IF p \in DOMAIN st THEN st[p].step ELSE 0

\* p's entry, or the zero entry its first update starts from
EntryOf(st, p) ==
    IF p \in DOMAIN st THEN st[p] ELSE [step |-> 0, m |-> Zero, v |-> Zero]

\* a transition that is one step() call
IsStep == calls' = calls + 1

\* p's entry of the state store is the same before and after the transition
SameEntry(p) ==
    /\ p \in DOMAIN state' <=> p \in DOMAIN state
    /\ p \in DOMAIN state => state'[p] = state[p]

\* lines 34, 41: the listings of the groups in iteration order
RECURSIVE FlatFrom(_, _)
FlatFrom(groups, i) ==
    IF i > Len(groups) THEN <<>>
    ELSE [j \in 1..Len(groups[i].params) |-> [g |-> i, p |-> groups[i].params[j]]]
         \o FlatFrom(groups, i + 1)

Order == FlatFrom(param_groups, 1)

\* number of listings of p
Occ(p) == Cardinality({k \in DOMAIN Order : Order[k].p = p})

GroupOf(p) == param_groups[Order[CHOOSE k \in DOMAIN Order : Order[k].p = p].g]

\* position of the first listing whose gradient is sparse, under gradients gr
FailAt(gr) ==
    LET S == {k \in DOMAIN Order : IsSparse(gr[Order[k].p])}
    IN  IF S = {} THEN Len(Order) + 1
        ELSE CHOOSE k \in S : \A j \in S : k <= j

\* number of listings of p that step() reaches with a dense gradient
Executed(p, gr) ==
    IF IsDense(gr[p])
    THEN Cardinality({k \in DOMAIN Order : k < FailAt(gr) /\ Order[k].p = p})
    ELSE 0

\* n updates of one parameter in a row, from its own value, entry, gradient
\* and group
RECURSIVE Iter(_, _, _, _, _)
Iter(n, pdata, entry, g, group) ==
    IF n = 0 THEN [data |-> pdata, entry |-> entry]
    ELSE LET r == AdamUpdate(pdata, entry, g, group)
         IN  Iter(n - 1, r.data, r.entry, g, group)

\* p's value and entry after the transition are those of n updates of p alone
LocalResult(p, n) ==
    IF n = 0 THEN data'[p] = data[p] /\ SameEntry(p)
    ELSE /\ p \in DOMAIN state'
         /\ [data |-> data'[p], entry |-> state'[p]]
              = Iter(n, data[p], EntryOf(state, p), grad'[p].data, GroupOf(p))

AbsVal(x) == <<Abs(x[1]), x[2]>>

\* delta of an update, from the entry e it leaves (step count t and moments
\* that already hold the current gradient) and the group's hyperparameters
RefDelta(e, group) ==
    LET m_hat == IF group.correct_bias
                 THEN Div(e.m, Sub(One, Pow(group.betas[1], e.step)))
                 ELSE e.m
        v_hat == IF group.correct_bias
                 THEN Div(e.v, Sub(One, Pow(group.betas[2], e.step)))
                 ELSE e.v
    IN  Div(Mul(group.lr, m_hat), Add(Sqrt(v_hat), group.eps))

\* delta of a first update with gradient g
FirstDelta(g, group) ==
    IF group.correct_bias
    THEN Div(Mul(group.lr, g), Add(AbsVal(g), group.eps))
    ELSE Div(Mul(Mul(group.lr, Sub(One, group.betas[1])), g),
             Add(Sqrt(Mul(Sub(One, group.betas[2]), Mul(g, g))), group.eps))

\* decay of the value q reached by the gradient step
Decayed(q, group) ==
    IF group.weight_decay = Zero THEN q
    ELSE Sub(q, Mul(Mul(group.lr, group.weight_decay), q))

\* the entry after one more update with gradient g
NextEntry(e, g, group) ==
    [step |-> e.step + 1,
     m |-> Add(Mul(group.betas[1], e.m), Mul(Sub(One, group.betas[1]), g)),
     v |-> Add(Mul(group.betas[2], e.v),
               Mul(Sub(One, group.betas[2]), Mul(g, g)))]

RECURSIVE EntryIter(_, _, _, _)
EntryIter(n, e, g, group) ==
    IF n = 0 THEN e ELSE EntryIter(n - 1, NextEntry(e, g, group), g, group)

\* the groups in the opposite iteration order
Reversed(groups) ==
    [i \in 1..Len(groups) |->
        LET grp == groups[Len(groups) + 1 - i]
        IN  [grp EXCEPT !.params =
                [j \in 1..Len(grp.params) |-> grp.params[Len(grp.params) + 1 - j]]]]

NonNeg(x) == x[2] > 0 /\ x[1] >= 0

InUnit(x) == x[2] > 0 /\ x[1] >= 0 /\ x[1] < x[2]

-----------------------------------------------------------------------------
(* C1 *)

\* C1: the constructor raises ValueError exactly when lr < 0, or beta1 or
\* beta2 is outside [0, 1), or eps < 0; lr = 0, beta = 0 and eps = 0 are
\* accepted and beta = 1 is rejected.
C1_Validation ==
    constructed # "no" =>
        /\ constructed = "ValueError" <=>
              \/ ctor_args.lr[1] < 0
              \/ ~InUnit(ctor_args.betas[1])
              \/ ~InUnit(ctor_args.betas[2])
              \/ ctor_args.eps[1] < 0
        /\ (ctor_args.betas[1] = One \/ ctor_args.betas[2] = One)
              => constructed = "ValueError"
        /\ ( /\ ctor_args.lr \in {Zero, <<1, 1000>>}
             /\ ctor_args.betas \in {<<Zero, Zero>>, <<<<9, 10>>, <<999, 1000>>>>}
             /\ ctor_args.eps \in {Zero, <<1, 1000000>>} )
              => constructed = "yes" /\ Len(param_groups) = Len(ctor_args.params)

C1_Witness ==
    /\ constructed = "ValueError"
    /\ ctor_args.lr = Zero
    /\ ctor_args.betas = <<One, Zero>>
    /\ ctor_args.eps = Zero

-----------------------------------------------------------------------------
(* C2 *)

\* C2: a parameter whose gradient was absent at every step() call so far has
\* its initial value and no entry in the state store, whatever happened to
\* the other parameters; and a single step() call leaves the value and the
\* entry of a parameter without gradient as they were.
C2_SkipRule ==
    [][ /\ \A p \in Handles :
             grad_calls'[p] = 0 => data'[p] = InitData[p] /\ p \notin DOMAIN state'
        /\ IsStep => \A p \in Handles :
             ~grad'[p].present => data'[p] = data[p] /\ SameEntry(p) ]_vars

C2_Witness ==
    /\ calls >= 2
    /\ grad_calls["p2"] = 0
    /\ "p2" \notin DOMAIN state
    /\ StepOf(state, "p1") >= 2
    /\ data["p1"] # InitData["p1"]

-----------------------------------------------------------------------------
(* C3 *)

\* C3: step() raises RuntimeError exactly when a listed parameter has a
\* sparse gradient; then every listing before the failing one whose gradient
\* is dense has had its complete update (value and entry), and the failing
\* parameter and the parameters listed only after it keep their value and
\* their entry (none is created, no step counter advances).
C3_SparseAbort ==
    [][ IsStep =>
          /\ outcome' = "RuntimeError" <=> FailAt(grad') <= Len(Order)
          /\ outcome' = "RuntimeError" =>
                /\ \A p \in Handles : LocalResult(p, Executed(p, grad'))
                /\ \A k \in DOMAIN Order :
                      (k >= FailAt(grad') /\ Executed(Order[k].p, grad') = 0)
                         => /\ data'[Order[k].p] = data[Order[k].p]
                            /\ SameEntry(Order[k].p) ]_vars

C3_Witness ==
    /\ outcome = "RuntimeError"
    /\ calls = 1
    /\ Len(param_groups) = 1 /\ param_groups[1].params = <<"p1", "p2", "p3">>
    /\ IsDense(grad["p1"]) /\ IsSparse(grad["p2"]) /\ IsDense(grad["p3"])
    /\ StepOf(state, "p1") = 1 /\ data["p1"] # InitData["p1"]
    /\ DOMAIN state = {"p1"}
    /\ data["p2"] = InitData["p2"] /\ data["p3"] = InitData["p3"]

-----------------------------------------------------------------------------
(* C4 *)

\* C4 as stated: each step() call advances by exactly one the step count of
\* every parameter with a present dense gradient, so the count is the number
\* of calls when the gradient was there each time; it never decreases.
C4_Original ==
    [][ /\ IsStep => \A p \in Handles :
             IsDense(grad'[p]) => StepOf(state', p) = StepOf(state, p) + 1
        /\ \A p \in Handles :
             (grad_calls'[p] = calls' /\ state' # state)
                => StepOf(state', p) = calls'
        /\ \A p \in Handles : StepOf(state', p) >= StepOf(state, p) ]_vars

\* C4, amended: a step() call advances the step count of a parameter with a
\* dense gradient by one per listing of the parameter that the call reaches
\* (all its listings when the call returns, those before the failing one
\* when it raises), and of no other parameter; while no call has raised, the
\* count is (calls that met a gradient) x (listings); it never decreases and
\* an entry is never dropped.
C4_StepCounter ==
    [][ /\ IsStep => \A p \in Handles :
             /\ StepOf(state', p) = StepOf(state, p) + Executed(p, grad')
             /\ (outcome' = "returned" /\ IsDense(grad'[p]))
                   => StepOf(state', p) = StepOf(state, p) + Occ(p)
        /\ raised_calls' = 0 => \A p \in Handles :
             StepOf(state', p) = Occ(p) * grad_calls'[p]
        /\ \A p \in Handles :
             /\ StepOf(state', p) >= StepOf(state, p)
             /\ p \in DOMAIN state => p \in DOMAIN state' ]_vars

C4_Witness ==
    /\ calls = 2 /\ raised_calls = 0
    /\ Occ("p1") = 2 /\ grad_calls["p1"] = 1 /\ StepOf(state, "p1") = 2
    /\ Occ("p2") = 1 /\ grad_calls["p2"] = 2 /\ StepOf(state, "p2") = 2

-----------------------------------------------------------------------------
(* C5 *)

\* C5: a step() call invokes the closure it is given exactly once and none
\* otherwise; what it returns is the closure's return value, or None without
\* a closure; the gradients the closure leaves are the ones the call works
\* with: a parameter the closure left without gradient keeps value and
\* entry even if it had a gradient before the call, and every other
\* parameter is updated from its value and entry of before the call.
C5_Closure ==
    [][ IsStep =>
          /\ invoked' = IF closure_arg' = "None" THEN 0 ELSE 1
          /\ outcome' = "returned" => loss' = closure_arg'
          /\ closure_arg' = "None" => grad' = grad
          /\ closure_arg' = "lossB" =>
                /\ grad' = NoGrads
                /\ outcome' = "returned"
                /\ data' = data /\ state' = state
          /\ closure_arg' # "None" =>
                \A p \in Handles : LocalResult(p, Executed(p, grad')) ]_vars

C5_Witness ==
    /\ calls = 2
    /\ closure_arg = "lossA" /\ loss = "lossA" /\ invoked = 1
    /\ outcome = "returned"
    /\ \A p \in Handles : IsDense(grad[p]) /\ StepOf(state, p) >= 1

-----------------------------------------------------------------------------
(* C6 *)

-----------------------------------------------------------------------------
(* C7 *)

-----------------------------------------------------------------------------
(* C8 *)

\* C8 as stated: after a successful construction every group has lr >= 0,
\* beta1 and beta2 in [0, 1) and eps >= 0, and step() changes no group.
C8_Original ==
    [][ /\ constructed' = "yes" => \A i \in DOMAIN param_groups' :
             /\ NonNeg(param_groups'[i].lr)
             /\ InUnit(param_groups'[i].betas[1])
             /\ InUnit(param_groups'[i].betas[2])
             /\ NonNeg(param_groups'[i].eps)
        /\ IsStep => param_groups' = param_groups ]_vars

-----------------------------------------------------------------------------
(* C9 *)

\* C9: an entry of the state store has step >= 1 and both moments; a
\* parameter has an entry only if a step() call met a gradient on it, and has
\* one whenever a call met a gradient on it and no call raised; an entry is
\* created only by a step() call that reaches a listing of the parameter with
\* a dense gradient, and then holds the updates of zero moments; an existing
\* entry is never removed, is left alone by a call that does not update the
\* parameter (gradient absent or sparse), and is otherwise continued from
\* its step count and moments, never from zero.
C9_Lifecycle ==
    [][ \A p \in Handles :
          /\ p \in DOMAIN state' =>
                /\ DOMAIN state'[p] = {"step", "m", "v"}
                /\ state'[p].step >= 1
                /\ grad_calls'[p] >= 1
          /\ (grad_calls'[p] >= 1 /\ raised_calls' = 0) => p \in DOMAIN state'
          /\ p \in DOMAIN state => p \in DOMAIN state'
          /\ p \in DOMAIN state' <=>
                (p \in DOMAIN state \/ (IsStep /\ Executed(p, grad') >= 1))
          /\ (IsStep /\ Executed(p, grad') >= 1) =>
                state'[p] = EntryIter(Executed(p, grad'), EntryOf(state, p),
                                      grad'[p].data, GroupOf(p))
          /\ ~(IsStep /\ Executed(p, grad') >= 1) => SameEntry(p) ]_vars

C9_Witness ==
    /\ calls = 2 /\ outcome = "RuntimeError"
    /\ IsSparse(grad["p1"])
    /\ "p1" \in DOMAIN state /\ state["p1"].step = 1 /\ state["p1"].m # Zero
    /\ IsDense(grad["p2"]) /\ "p2" \notin DOMAIN state
    /\ ~grad["p3"].present /\ "p3" \in DOMAIN state

-----------------------------------------------------------------------------
(* C10 *)

\* C10: after a step() call that returns, the value and the entry of every
\* parameter are those of the updates of that parameter alone: a function of
\* its own value, entry, gradient and group, whatever the other parameters
\* hold; and iterating the groups and their parameters in the opposite order
\* gives the same values and entries.
C10_Independence ==
    [][ (IsStep /\ outcome' = "returned") =>
          /\ \A p \in Handles :
                LocalResult(p, IF IsDense(grad'[p]) THEN Occ(p) ELSE 0)
          /\ LET r == GroupLoop(Reversed(param_groups), 1,
                         [data |-> data, grad |-> grad', state |-> state,
                          loss |-> "None", invoked |-> 0, raised |-> FALSE])
             IN  r.data = data' /\ r.state = state' ]_vars

C10_Witness ==
    /\ calls = 2 /\ outcome = "returned"
    /\ Len(param_groups) = 2 /\ param_groups[1].lr # param_groups[2].lr
    /\ grad = Grads(DenseGrad(<<-2, 1>>), NoGrad, DenseGrad(One))
    /\ StepOf(state, "p1") = 2 /\ StepOf(state, "p2") = 1 /\ StepOf(state, "p3") = 2

=============================================================================
